---------------------------- MODULE Spec2Model ----------------------------
(***************************************************************************)
(* Model of src/populate.py: the shipping-data processor that reads three  *)
(* CSV files and populates the product and shipment tables of a SQLite     *)
(* store inside one transaction.                                           *)
(*                                                                         *)
(* A CSV cell is a string.  csv.DictReader yields None for the trailing    *)
(* cells of a short row (restval) and has no key at all for a column that  *)
(* the header line lacks (row[key] raises KeyError).  NONE and ABSENT      *)
(* stand for these two outcomes; they are not strings of the input         *)
(* alphabet.  The text of product_quantity is a sequence of characters so  *)
(* that int() is computed, with <<NONE>> and <<ABSENT>> for the two        *)
(* non-string outcomes.                                                    *)
(***************************************************************************)
EXTENDS Integers, Sequences, FiniteSets, TLC

\* ------------------------------------------------------------------ bounds
MaxRows0 == 1
MaxLoc == 2
MaxFact == 3

\* ------------------------------------------------------------ input values
NONE == "<None>"
ABSENT == "<absent>"

Products0 == {"Bolt"}
QuantityTexts == { <<"1", "2">>, <<"0">>, <<"2", ".", "5">> }

Digits == {"0", "1", "2", "3", "4", "5", "6", "7", "8", "9"}

DigitVal(c) ==
    CASE c = "0" -> 0 [] c = "1" -> 1 [] c = "2" -> 2 [] c = "3" -> 3
      [] c = "4" -> 4 [] c = "5" -> 5 [] c = "6" -> 6 [] c = "7" -> 7
      [] c = "8" -> 8 [] c = "9" -> 9

RECURSIVE DigitsVal(_)
DigitsVal(s) ==
    IF s = <<>> THEN 0
    ELSE 10 * DigitsVal(SubSeq(s, 1, Len(s) - 1)) + DigitVal(s[Len(s)])

IsDigits(s) == Len(s) >= 1 /\ \A i \in 1..Len(s) : s[i] \in Digits

\* int(text) of line 70: the value, or the exception int() raises:
\* TypeError for None, ValueError for a text that is no integer literal.
IntOf(text) ==
    IF text = <<NONE>> THEN [err |-> "TypeError", val |-> 0]
    ELSE IF IsDigits(text) THEN [err |-> "none", val |-> DigitsVal(text)]
    ELSE IF Len(text) >= 2 /\ text[1] \in {"-", "+"} /\ IsDigits(Tail(text))
         THEN [err |-> "none",
               val |-> IF text[1] = "-" THEN 0 - DigitsVal(Tail(text))
                                        ELSE DigitsVal(Tail(text))]
    ELSE [err |-> "ValueError", val |-> 0]

\* -------------------------------------------------------------- the store
\* The product table is the sequence of names in rowid order (id = position,
\* lastrowid = the new length); the shipment table is the sequence of rows.
\* The store before the run already holds rows, so that a rollback is seen
\* to restore them and a lookup can find a product no row of the run created.
PreStores ==
    { [product |-> <<"Nut">>,
       shipment |-> << [product_id |-> 1, quantity |-> 5,
                        origin |-> "W1", destination |-> "S1"] >>] }

\* Schema of the sink: product.name, shipment.origin and
\* shipment.destination are NOT NULL.
NotNull(v) == v # NONE

\* SELECT id FROM product WHERE name = ?  -- 0 when no row matches.  A NULL
\* parameter matches no row.
SelectProductId(store, product_name) ==
    IF product_name = NONE THEN 0
    ELSE IF \E i \in 1..Len(store.product) : store.product[i] = product_name
         THEN CHOOSE i \in 1..Len(store.product) :
                 /\ store.product[i] = product_name
                 /\ \A j \in 1..(i - 1) : store.product[j] # product_name
         ELSE 0

\* Variant: the lookup of lines 31-35 is left out, every call inserts.
get_or_create_product_AlwaysInsert(store, product_name) ==
    IF ~NotNull(product_name)
    THEN [err |-> "IntegrityError", store |-> store, id |-> 0]
    ELSE [err |-> "none",
          store |-> [store EXCEPT !.product = Append(@, product_name)],
          id |-> Len(store.product) + 1]

\* Variant: cursor.lastrowid is returned on both paths.
get_or_create_product_LastRowId(store, product_name) ==
    LET result == SelectProductId(store, product_name) IN
    IF result # 0
    THEN [err |-> "none", store |-> store, id |-> Len(store.product)]
    ELSE IF ~NotNull(product_name)
         THEN [err |-> "IntegrityError", store |-> store, id |-> 0]
    ELSE [err |-> "none",
          store |-> [store EXCEPT !.product = Append(@, product_name)],
          id |-> Len(store.product) + 1]

get_or_create_product(store, product_name) ==
    LET result == SelectProductId(store, product_name) IN
    IF result # 0 THEN [err |-> "none", store |-> store, id |-> result]
    ELSE IF ~NotNull(product_name)
         THEN [err |-> "IntegrityError", store |-> store, id |-> 0]
    ELSE [err |-> "none",
          store |-> [store EXCEPT !.product = Append(@, product_name)],
          id |-> Len(store.product) + 1]

\* Variant: origin and destination are bound in the wrong order.
insert_shipment_Swapped(store, product_id, quantity, origin, destination) ==
    IF ~NotNull(origin) \/ ~NotNull(destination)
    THEN [err |-> "IntegrityError", store |-> store]
    ELSE [err |-> "none",
          store |-> [store EXCEPT !.shipment =
                        Append(@, [product_id |-> product_id,
                                   quantity |-> quantity,
                                   origin |-> destination,
                                   destination |-> origin])]]

insert_shipment(store, product_id, quantity, origin, destination) ==
    IF ~NotNull(origin) \/ ~NotNull(destination)
    THEN [err |-> "IntegrityError", store |-> store]
    ELSE [err |-> "none",
          store |-> [store EXCEPT !.shipment =
                        Append(@, [product_id |-> product_id,
                                   quantity |-> quantity,
                                   origin |-> origin,
                                   destination |-> destination])]]

\* Lines 74-75 and 118-119: resolve the product, then insert the shipment.
\* A failing insert leaves the product row written in the open transaction.
Persist(store, product_name, quantity, origin, destination) ==
    LET g == get_or_create_product(store, product_name) IN
    IF g.err # "none"
    THEN [err |-> g.err, store |-> g.store, id |-> 0, resolved |-> FALSE]
    ELSE LET s == insert_shipment(g.store, g.id, quantity, origin, destination) IN
         [err |-> s.err, store |-> s.store, id |-> g.id, resolved |-> TRUE]

\* ----------------------------------------------------------------- state
VARIABLES
    pc,              \* position in main()
    db,              \* committed contents of the store
    tx,              \* contents seen by the connection (open transaction)
    pre,             \* contents of the store before the run
    n0,              \* rows of shipping_data_0.csv consumed
    loc_rows,        \* rows of shipping_data_2.csv consumed, in input order
    shipment_info,   \* dict shipment_id -> [origin, destination]
    fact_rows,       \* rows of shipping_data_1.csv consumed, in input order
    product_counts,  \* insertion-ordered dict of insertion-ordered dicts
    si, pi,          \* position of the emission loops (lines 108, 117)
    warnings,        \* shipment ids printed at line 110
    emitted,         \* canonical tuple of every shipment inserted by the run
    calls,           \* name and returned id of every get_or_create_product call
    err,             \* exception that reached main()'s handler, or "none"
    malformed,       \* files from which a malformed row was consumed
    commits,         \* number of conn.commit() calls
    rolled_back,     \* conn.rollback() was called
    closed           \* conn.close() was called

vars == <<pc, db, tx, pre, n0, loc_rows, shipment_info, fact_rows,
          product_counts, si, pi, warnings, emitted, calls, err, malformed,
          commits, rolled_back, closed>>

Init ==
    /\ pc = "data0"
    /\ pre \in PreStores
    /\ db = pre
    /\ tx = pre
    /\ n0 = 0
    /\ loc_rows = <<>>
    /\ shipment_info = << >>
    /\ fact_rows = <<>>
    /\ product_counts = <<>>
    /\ si = 1
    /\ pi = 1
    /\ warnings = <<>>
    /\ emitted = <<>>
    /\ calls = <<>>
    /\ err = "none"
    /\ malformed = {}
    /\ commits = 0
    /\ rolled_back = FALSE
    /\ closed = FALSE

\* ------------------------------------------------------------- input rows
Fields0 == {"product", "product_quantity", "origin_warehouse", "destination_store"}
Fields2 == {"shipment_identifier", "origin_warehouse", "destination_store"}
Fields1 == {"shipment_identifier", "product"}

Rows0 ==
    [product : Products0 \cup {NONE},
     product_quantity : QuantityTexts \cup {<<NONE>>},
     origin_warehouse : {"W1", NONE},
     destination_store : {"S1", NONE}]

LocRow(s, o, d) ==
    [shipment_identifier |-> s, origin_warehouse |-> o, destination_store |-> d]

Rows2 ==
    { LocRow("A1", "W1", "S1"), LocRow("A1", "W2", "S2"),
      LocRow("A2", "W2", "S2"), LocRow("A1", "W1", NONE) }

FactRow(s, p) == [shipment_identifier |-> s, product |-> p]

Rows1 ==
    { FactRow("A1", "Bolt"), FactRow("A1", "Nut"), FactRow("A2", "Bolt"),
      FactRow("A2", NONE) }

\* The row as DictReader yields it when the header line lacks column f.
Without(row, f) ==
    [k \in DOMAIN row |->
        IF k # f THEN row[k]
        ELSE IF k = "product_quantity" THEN <<ABSENT>> ELSE ABSENT]

\* The rows a reader can yield: every row of one file has the keys of the
\* header line, so only the first row consumed can meet a missing key (a
\* later row is reached only after the first one was read without KeyError).
Yield(rows, fields, first) ==
    IF first THEN rows \cup {Without(r, f) : r \in rows, f \in fields}
    ELSE rows

\* Lines 69-72: the lookups and the conversion, in the order of the code.
Normalize0(row) ==
    LET q == IntOf(row.product_quantity)
        e == IF row.product = ABSENT THEN "KeyError"
             ELSE IF row.product_quantity = <<ABSENT>> THEN "KeyError"
             ELSE IF q.err # "none" THEN q.err
             ELSE IF row.origin_warehouse = ABSENT THEN "KeyError"
             ELSE IF row.destination_store = ABSENT THEN "KeyError"
             ELSE "none"
    IN [err |-> e, product_name |-> row.product, quantity |-> q.val,
        origin |-> row.origin_warehouse, destination |-> row.destination_store]

\* Variant: an identifier already in the dict keeps its first entry.
SetInfo_FirstWins(info, row) ==
    [k \in DOMAIN info \cup {row.shipment_identifier} |->
        IF k \in DOMAIN info THEN info[k]
        ELSE [origin |-> row.origin_warehouse, destination |-> row.destination_store]]

\* Lines 90-94: shipment_info[shipment_id] = {...}
SetInfo(info, row) ==
    [k \in DOMAIN info \cup {row.shipment_identifier} |->
        IF k = row.shipment_identifier
        THEN [origin |-> row.origin_warehouse, destination |-> row.destination_store]
        ELSE info[k]]

KeyError2(row) ==
    \/ row.shipment_identifier = ABSENT
    \/ row.origin_warehouse = ABSENT
    \/ row.destination_store = ABSENT

KeyError1(row) ==
    \/ row.shipment_identifier = ABSENT
    \/ row.product = ABSENT

\* Position of key k in an insertion-ordered dict (a sequence of entries
\* with field key), 0 when absent.
IndexOf(d, k) ==
    IF \E i \in 1..Len(d) : d[i].key = k
    THEN CHOOSE i \in 1..Len(d) : d[i].key = k
    ELSE 0

\* Variant: the counter is assigned 1 instead of incremented.
Increment_Assign(counts, shipment_id, product_name) ==
    LET c1 == IF IndexOf(counts, shipment_id) = 0
              THEN Append(counts, [key |-> shipment_id, products |-> <<>>])
              ELSE counts
        i  == IndexOf(c1, shipment_id)
        ps == c1[i].products
        p1 == IF IndexOf(ps, product_name) = 0
              THEN Append(ps, [key |-> product_name, count |-> 0])
              ELSE ps
        j  == IndexOf(p1, product_name)
    IN [c1 EXCEPT ![i].products = [p1 EXCEPT ![j].count = 1]]

\* Line 105: product_counts[shipment_id][product_name] += 1 on a
\* defaultdict(lambda: defaultdict(int)).
Increment(counts, shipment_id, product_name) ==
    LET c1 == IF IndexOf(counts, shipment_id) = 0
              THEN Append(counts, [key |-> shipment_id, products |-> <<>>])
              ELSE counts
        i  == IndexOf(c1, shipment_id)
        ps == c1[i].products
        p1 == IF IndexOf(ps, product_name) = 0
              THEN Append(ps, [key |-> product_name, count |-> 0])
              ELSE ps
        j  == IndexOf(p1, product_name)
    IN [c1 EXCEPT ![i].products = [p1 EXCEPT ![j].count = @ + 1]]

\* What the rows of a family have wrong, in the words of the specification:
\* a required field is missing or product_quantity is not an integer.
Missing(v) == v \in {NONE, ABSENT}

Malformed0(row) ==
    \/ Missing(row.product)
    \/ Missing(row.origin_warehouse)
    \/ Missing(row.destination_store)
    \/ row.product_quantity \in {<<NONE>>, <<ABSENT>>}
    \/ IntOf(row.product_quantity).err # "none"

Malformed2(row) ==
    \/ Missing(row.shipment_identifier)
    \/ Missing(row.origin_warehouse)
    \/ Missing(row.destination_store)

Malformed1(row) == Missing(row.shipment_identifier) \/ Missing(row.product)

\* ---------------------------------------------------------------- actions
\* One iteration of the loop of process_shipping_data_0 (lines 68-75).
Data0Row ==
    /\ pc = "data0"
    /\ n0 < MaxRows0
    /\ \E row \in Yield(Rows0, Fields0, n0 = 0) :
         LET n == Normalize0(row)
             p == Persist(tx, n.product_name, n.quantity, n.origin, n.destination)
             e == IF n.err # "none" THEN n.err ELSE p.err
         IN /\ tx' = IF n.err # "none" THEN tx ELSE p.store
            /\ calls' = IF n.err = "none" /\ p.resolved
                        THEN Append(calls, [name |-> n.product_name, id |-> p.id])
                        ELSE calls
            /\ emitted' = IF e = "none"
                          THEN Append(emitted,
                                 [family |-> "data0", shipment_id |-> NONE,
                                  product_name |-> n.product_name,
                                  quantity |-> n.quantity, origin |-> n.origin,
                                  destination |-> n.destination])
                          ELSE emitted
            /\ err' = e
            /\ pc' = IF e = "none" THEN "data0" ELSE "except"
            /\ malformed' = IF Malformed0(row) THEN malformed \cup {"data0"}
                            ELSE malformed
    /\ n0' = n0 + 1
    /\ UNCHANGED <<db, pre, loc_rows, shipment_info, fact_rows, product_counts,
                   si, pi, warnings, commits, rolled_back, closed>>

\* The reader of shipping_data_0.csv is exhausted: process_shipping_data_0
\* returns and process_shipping_data_1_and_2 starts (lines 131-135, 86-88).
Data0End ==
    /\ pc = "data0"
    /\ pc' = "data2"
    /\ UNCHANGED <<db, tx, pre, n0, loc_rows, shipment_info, fact_rows,
                   product_counts, si, pi, warnings, emitted, calls, err,
                   malformed, commits, rolled_back, closed>>

\* One iteration of the loop over shipping_data_2.csv (lines 89-94).
Data2Row ==
    /\ pc = "data2"
    /\ Len(loc_rows) < MaxLoc
    /\ \E row \in Yield(Rows2, Fields2, loc_rows = <<>>) :
         /\ loc_rows' = Append(loc_rows, row)
         /\ malformed' = IF Malformed2(row) THEN malformed \cup {"data2"}
                         ELSE malformed
         /\ IF KeyError2(row)
            THEN /\ err' = "KeyError"
                 /\ pc' = "except"
                 /\ UNCHANGED shipment_info
            ELSE /\ shipment_info' = SetInfo(shipment_info, row)
                 /\ UNCHANGED <<err, pc>>
    /\ UNCHANGED <<db, tx, pre, n0, fact_rows, product_counts, si, pi,
                   warnings, emitted, calls, commits, rolled_back, closed>>

Data2End ==
    /\ pc = "data2"
    /\ pc' = "data1"
    /\ UNCHANGED <<db, tx, pre, n0, loc_rows, shipment_info, fact_rows,
                   product_counts, si, pi, warnings, emitted, calls, err,
                   malformed, commits, rolled_back, closed>>

\* One iteration of the loop over shipping_data_1.csv (lines 102-105).
Data1Row ==
    /\ pc = "data1"
    /\ Len(fact_rows) < MaxFact
    /\ \E row \in Yield(Rows1, Fields1, fact_rows = <<>>) :
         /\ fact_rows' = Append(fact_rows, row)
         /\ malformed' = IF Malformed1(row) THEN malformed \cup {"data1"}
                         ELSE malformed
         /\ IF KeyError1(row)
            THEN /\ err' = "KeyError"
                 /\ pc' = "except"
                 /\ UNCHANGED product_counts
            ELSE /\ product_counts' =
                      Increment(product_counts, row.shipment_identifier, row.product)
                 /\ UNCHANGED <<err, pc>>
    /\ UNCHANGED <<db, tx, pre, n0, loc_rows, shipment_info, si, pi,
                   warnings, emitted, calls, commits, rolled_back, closed>>

Data1End ==
    /\ pc = "data1"
    /\ pc' = "emit"
    /\ UNCHANGED <<db, tx, pre, n0, loc_rows, shipment_info, fact_rows,
                   product_counts, si, pi, warnings, emitted, calls, err,
                   malformed, commits, rolled_back, closed>>

\* Variant: the missing location is raised instead of skipped.
EmitSkip_Raise ==
    /\ pc = "emit"
    /\ si <= Len(product_counts)
    /\ product_counts[si].key \notin DOMAIN shipment_info
    /\ err' = "KeyError"
    /\ pc' = "except"
    /\ UNCHANGED <<db, tx, pre, n0, loc_rows, shipment_info, fact_rows,
                   product_counts, si, pi, warnings, emitted, calls, malformed,
                   commits, rolled_back, closed>>

\* Lines 109-111: no location for this shipment: warn and continue.
EmitSkip ==
    /\ pc = "emit"
    /\ si <= Len(product_counts)
    /\ product_counts[si].key \notin DOMAIN shipment_info
    /\ warnings' = Append(warnings, product_counts[si].key)
    /\ si' = si + 1
    /\ UNCHANGED <<pc, db, tx, pre, n0, loc_rows, shipment_info, fact_rows,
                   product_counts, pi, emitted, calls, err, malformed,
                   commits, rolled_back, closed>>

\* Lines 113-119: one iteration of the inner loop over products.items().
EmitProduct ==
    /\ pc = "emit"
    /\ si <= Len(product_counts)
    /\ product_counts[si].key \in DOMAIN shipment_info
    /\ LET shipment_id == product_counts[si].key
           products == product_counts[si].products
           info == shipment_info[shipment_id]
           product_name == products[pi].key
           quantity == products[pi].count
           p == Persist(tx, product_name, quantity, info.origin, info.destination)
       IN /\ tx' = p.store
          /\ calls' = IF p.resolved
                      THEN Append(calls, [name |-> product_name, id |-> p.id])
                      ELSE calls
          /\ emitted' = IF p.err = "none"
                        THEN Append(emitted,
                               [family |-> "data1", shipment_id |-> shipment_id,
                                product_name |-> product_name,
                                quantity |-> quantity, origin |-> info.origin,
                                destination |-> info.destination])
                        ELSE emitted
          /\ err' = p.err
          /\ IF p.err # "none"
             THEN pc' = "except" /\ UNCHANGED <<si, pi>>
             ELSE /\ pc' = pc
                  /\ IF pi < Len(products)
                     THEN pi' = pi + 1 /\ si' = si
                     ELSE pi' = 1 /\ si' = si + 1
    /\ UNCHANGED <<db, pre, n0, loc_rows, shipment_info, fact_rows,
                   product_counts, warnings, malformed, commits, rolled_back,
                   closed>>

\* The outer loop is exhausted: process_shipping_data_1_and_2 returns.
EmitEnd ==
    /\ pc = "emit"
    /\ si > Len(product_counts)
    /\ pc' = "commit"
    /\ UNCHANGED <<db, tx, pre, n0, loc_rows, shipment_info, fact_rows,
                   product_counts, si, pi, warnings, emitted, calls, err,
                   malformed, commits, rolled_back, closed>>

\* conn.commit(): the open transaction becomes the contents of the store.
CommitStore(committed, working) == working

\* Variant: the handler leaves the open transaction as it is.
RollbackStore_Keep(committed, working) == working

\* conn.rollback(): the connection sees the committed contents again.
RollbackStore(committed, working) == committed

\* Line 142, followed by the summary of lines 143-153, which reads only.
Commit ==
    /\ pc = "commit"
    /\ db' = CommitStore(db, tx)
    /\ commits' = commits + 1
    /\ pc' = "finally"
    /\ UNCHANGED <<tx, pre, n0, loc_rows, shipment_info, fact_rows,
                   product_counts, si, pi, warnings, emitted, calls, err,
                   malformed, rolled_back, closed>>

\* Lines 155-158: the handler rolls back and re-raises.
Except ==
    /\ pc = "except"
    /\ tx' = RollbackStore(db, tx)
    /\ rolled_back' = TRUE
    /\ pc' = "finally"
    /\ UNCHANGED <<db, pre, n0, loc_rows, shipment_info, fact_rows,
                   product_counts, si, pi, warnings, emitted, calls, err,
                   malformed, commits, closed>>

\* Lines 159-160: conn.close() discards whatever was left uncommitted.
Finally ==
    /\ pc = "finally"
    /\ closed' = TRUE
    /\ tx' = db
    /\ pc' = "done"
    /\ UNCHANGED <<db, pre, n0, loc_rows, shipment_info, fact_rows,
                   product_counts, si, pi, warnings, emitted, calls, err,
                   malformed, commits, rolled_back>>

Next ==
    \/ Data0Row \/ Data0End
    \/ Data2Row \/ Data2End
    \/ Data1Row \/ Data1End
    \/ EmitSkip \/ EmitProduct \/ EmitEnd
    \/ Commit \/ Except \/ Finally

Spec == Init /\ [][Next]_vars


\* ------------------------------------------------- vocabulary of the claims
\* Number of shipment rows the run has written into the open transaction.
RunCount == Len(tx.shipment) - Len(pre.shipment)

\* The k-th shipment row written by the run.
RunShipment(k) == tx.shipment[Len(pre.shipment) + k]

\* Indices of the shipment rows written from the joined family.
Joined == {k \in 1..RunCount : emitted[k].family = "data1"}

Range(f) == {f[i] : i \in DOMAIN f}

\* Input rows carrying a shipment identifier / a (shipment, product) pair.
LocIdx(sid) == {i \in 1..Len(loc_rows) : loc_rows[i].shipment_identifier = sid}
FactIdx(sid, name) ==
    {i \in 1..Len(fact_rows) :
        /\ fact_rows[i].shipment_identifier = sid
        /\ fact_rows[i].product = name}
LocSids == {loc_rows[i].shipment_identifier : i \in 1..Len(loc_rows)}
FactSids == {fact_rows[i].shipment_identifier : i \in 1..Len(fact_rows)}
FactProducts(sid) ==
    {fact_rows[i].product :
        i \in {j \in 1..Len(fact_rows) : fact_rows[j].shipment_identifier = sid}}

Max(S) == CHOOSE m \in S : \A n \in S : n <= m

\* The last location row of the input that carries sid.
LastLoc(sid) == loc_rows[Max(LocIdx(sid))]

\* The whole of lines 102-105 applied to a sequence of fact rows.
RECURSIVE Aggregate(_)
Aggregate(rows) ==
    IF rows = <<>> THEN <<>>
    ELSE LET r == rows[Len(rows)] IN
         Increment(Aggregate(SubSeq(rows, 1, Len(rows) - 1)),
                   r.shipment_identifier, r.product)

\* product_counts[sid][name] read without creating the entry.
CountOf(counts, sid, name) ==
    IF IndexOf(counts, sid) = 0 THEN 0
    ELSE LET ps == counts[IndexOf(counts, sid)].products IN
         IF IndexOf(ps, name) = 0 THEN 0 ELSE ps[IndexOf(ps, name)].count

Permuted(rows, f) == [i \in 1..Len(rows) |-> rows[f[i]]]

\* process_shipping_data_1_and_2 has returned normally.
JoinReturned == pc = "commit" \/ (pc \in {"finally", "done"} /\ err = "none")

\* ------------------------------------------------------------------ claims

\* C1 (as claimed): when a malformed record (a missing required field or a
\* non-integer product_quantity) was consumed from any of the files, the
\* store after the run equals the store before the run.
C1_AtomicFailure == (pc = "done" /\ malformed # {}) => db = pre

\* C2: every shipment written from the joined family has as quantity the
\* exact number of fact rows carrying its (shipment_identifier, product)
\* pair, and aggregating any permutation of the fact rows gives that same
\* quantity.
C2_AggregationCorrect ==
    ~rolled_back =>
      /\ \A k \in Joined :
            RunShipment(k).quantity
               = Cardinality(FactIdx(emitted[k].shipment_id, emitted[k].product_name))
      /\ pc = "commit" =>
            \A f \in Permutations(1..Len(fact_rows)) :
              LET counts == Aggregate(Permuted(fact_rows, f)) IN
              \A k \in Joined :
                 CountOf(counts, emitted[k].shipment_id, emitted[k].product_name)
                    = RunShipment(k).quantity

C2_Witness ==
    /\ ~rolled_back
    /\ \E k \in Joined :
         /\ RunShipment(k).quantity = 2
         /\ \E i, j, l \in 1..Len(fact_rows) :
              /\ i < j /\ j < l
              /\ i \in FactIdx(emitted[k].shipment_id, emitted[k].product_name)
              /\ l \in FactIdx(emitted[k].shipment_id, emitted[k].product_name)
              /\ j \notin FactIdx(emitted[k].shipment_id, emitted[k].product_name)

\* C3: for a shipment identifier carried by fact rows and by location rows,
\* never two shipments are written for one of its products, each one written
\* carries the origin and destination of its location entry, and once
\* process_shipping_data_1_and_2 has returned exactly one shipment is
\* written for each of its distinct products.
C3_JoinComplete ==
    ~rolled_back =>
      \A sid \in FactSids \cap LocSids :
        \A name \in FactProducts(sid) :
          LET ks == {k \in Joined : /\ emitted[k].shipment_id = sid
                                    /\ emitted[k].product_name = name}
          IN /\ Cardinality(ks) <= 1
             /\ JoinReturned => Cardinality(ks) = 1
             /\ \A k \in ks :
                  /\ RunShipment(k).origin = LastLoc(sid).origin_warehouse
                  /\ RunShipment(k).destination = LastLoc(sid).destination_store

C3_Witness ==
    /\ JoinReturned
    /\ ~rolled_back
    /\ Cardinality(FactProducts("A1")) = 2
    /\ "A1" \in LocSids
    /\ "A2" \in FactSids \cap LocSids
    /\ Cardinality(Joined) = 3

\* C4: a shipment identifier carried by fact rows and by no location row
\* never gets a shipment; once the emission loop has ended it has a warning
\* and every identifier that has a location has its shipments; and a run
\* over well-formed rows ends committed without an error, whatever
\* locations are missing.
C4_MissingLocationSkip ==
    /\ ~rolled_back => \A k \in Joined : emitted[k].shipment_id \in LocSids
    /\ JoinReturned =>
         /\ \A sid \in FactSids \ LocSids : sid \in Range(warnings)
         /\ \A sid \in FactSids \cap LocSids :
               \E k \in Joined : emitted[k].shipment_id = sid
    /\ (pc = "done" /\ malformed = {}) =>
         /\ err = "none"
         /\ commits = 1
         /\ Len(db.shipment) = Len(pre.shipment) + Len(emitted)

C4_Witness ==
    /\ pc = "done"
    /\ malformed = {}
    /\ commits = 1
    /\ warnings = <<"A2">>
    /\ product_counts[1].key = "A2"
    /\ \E k \in 1..Len(emitted) : emitted[k].shipment_id = "A1"

\* C5: the product table never holds two rows of one name; every call of
\* get_or_create_product returns the id of the row of its name, so two calls
\* with one name return one id; and the run has added exactly one row for
\* each name it resolved that had no row before the run.
C5_IdempotentResolution ==
    ~rolled_back =>
      /\ \A i, j \in 1..Len(tx.product) :
            tx.product[i] = tx.product[j] => i = j
      /\ \A c \in 1..Len(calls) :
            /\ calls[c].id \in 1..Len(tx.product)
            /\ tx.product[calls[c].id] = calls[c].name
      /\ \A c, d \in 1..Len(calls) :
            calls[c].name = calls[d].name => calls[c].id = calls[d].id
      /\ Len(tx.product) = Len(pre.product)
            + Cardinality({calls[c].name : c \in 1..Len(calls)}
                             \ Range(pre.product))

C5_Witness ==
    /\ ~rolled_back
    /\ \E c, d \in 1..Len(calls) :
         /\ c < d
         /\ calls[c].name = calls[d].name
         /\ calls[c].name \notin Range(pre.product)
    /\ \E c \in 1..Len(calls) : calls[c].name \in Range(pre.product)
    /\ Len(tx.product) = Len(pre.product) + 1

\* C6: every shipment row written by the run refers to a row of the product
\* table, and that row's name is the product name of the canonical tuple the
\* shipment was made from.
C6_ReferentialIntegrity ==
    ~rolled_back =>
      /\ RunCount = Len(emitted)
      /\ \A k \in 1..RunCount :
            /\ RunShipment(k).product_id \in 1..Len(tx.product)
            /\ tx.product[RunShipment(k).product_id] = emitted[k].product_name

C6_Witness ==
    /\ ~rolled_back
    /\ \E k, l, m \in 1..RunCount :
         /\ emitted[k].family = "data0"
         /\ emitted[l].family = "data1"
         /\ emitted[m].family = "data1"
         /\ RunShipment(l).product_id # RunShipment(k).product_id
         /\ RunShipment(m).product_id = RunShipment(k).product_id

\* C7 (as claimed): a run that consumed a fact row or a location row with a
\* missing field ends with an error, rolled back and not committed.
C7_MalformedFatal ==
    (pc = "done" /\ malformed \cap {"data1", "data2"} # {}) =>
        /\ err # "none"
        /\ rolled_back
        /\ commits = 0

C9_PositiveQuantity ==
    ~rolled_back => \A k \in 1..RunCount : RunShipment(k).quantity >= 1

\* C10: location rows repeating a shipment identifier raise no error, and
\* every shipment written for an identifier carried by several location rows
\* has the origin and the destination of the last of these rows.
C10_LastWriteWins ==
    /\ (err # "none" /\ loc_rows # <<>> /\ fact_rows = <<>>) =>
          KeyError2(loc_rows[Len(loc_rows)])
    /\ ~rolled_back =>
         \A k \in Joined :
           LET idx == LocIdx(emitted[k].shipment_id) IN
           Cardinality(idx) >= 2 =>
             /\ RunShipment(k).origin = loc_rows[Max(idx)].origin_warehouse
             /\ RunShipment(k).destination = loc_rows[Max(idx)].destination_store

C10_Witness ==
    /\ ~rolled_back
    /\ \E k \in Joined :
         LET idx == LocIdx(emitted[k].shipment_id) IN
         /\ Cardinality(idx) = 2
         /\ \E i \in idx :
              /\ i < Max(idx)
              /\ loc_rows[i].origin_warehouse # RunShipment(k).origin
              /\ loc_rows[i].destination_store # RunShipment(k).destination

=============================================================================
